---------------------------- MODULE Spec2Model ----------------------------
(***************************************************************************)
(* A model of the poorentropy crate: the value generator get() built from  *)
(* the hardware counter, the process-wide atomic sequence and the          *)
(* SplitMix64 mixer; fill(); the Bytes iterator; and the testgen write     *)
(* loop.                                                                   *)
(*                                                                         *)
(* A u64 is a tuple of four 16-bit limbs, least significant limb first,    *)
(* so that every intermediate value of the 64-bit arithmetic stays inside  *)
(* the model checker's integers while the arithmetic itself is the full    *)
(* 64-bit arithmetic of the code.                                          *)
(***************************************************************************)
EXTENDS Integers, Sequences, FiniteSets, TLC

\* ------------------------------------------------------------------ u64

Radix == 2^16

IsU64(w) == /\ DOMAIN w = 1..4
            /\ \A i \in 1..4 : w[i] \in 0..(Radix - 1)

\* The u64 of a small natural number (n < 2^31).
FromNat(n) == <<n % Radix, (n \div Radix) % Radix, 0, 0>>

Zero == FromNat(0)
One == FromNat(1)

\* u64::MAX
U64Max == <<Radix - 1, Radix - 1, Radix - 1, Radix - 1>>

\* u64::to_le_bytes: byte i (1..8) is bits 8(i-1) .. 8(i-1)+7.
to_le_bytes(w) ==
  <<w[1] % 256, w[1] \div 256, w[2] % 256, w[2] \div 256,
    w[3] % 256, w[3] \div 256, w[4] % 256, w[4] \div 256>>

\* The u64 whose little-endian bytes are b (the inverse of to_le_bytes).
from_le_bytes(b) ==
  <<b[1] + 256 * b[2], b[3] + 256 * b[4], b[5] + 256 * b[6], b[7] + 256 * b[8]>>

\* u64::wrapping_add: limb-wise addition with carry, the carry out of
\* bit 63 dropped.
wrapping_add(a, b) ==
  LET s1 == a[1] + b[1]
      s2 == a[2] + b[2] + (s1 \div Radix)
      s3 == a[3] + b[3] + (s2 \div Radix)
      s4 == a[4] + b[4] + (s3 \div Radix)
  IN  <<s1 % Radix, s2 % Radix, s3 % Radix, s4 % Radix>>

\* u64::saturating_add: the sum, or u64::MAX when it passes 2^64.
saturating_add(a, b) ==
  LET s1 == a[1] + b[1]
      s2 == a[2] + b[2] + (s1 \div Radix)
      s3 == a[3] + b[3] + (s2 \div Radix)
      s4 == a[4] + b[4] + (s3 \div Radix)
  IN  IF s4 >= Radix THEN U64Max
      ELSE <<s1 % Radix, s2 % Radix, s3 % Radix, s4 % Radix>>

RECURSIVE ColSum(_, _, _, _)
\* Sum of the byte products A[i] * B[k + 1 - i], i = from..k: column k of
\* the schoolbook product (bytes indexed 1..8).
ColSum(A, B, k, from) ==
  IF from > k THEN 0
  ELSE A[from] * B[k + 1 - from] + ColSum(A, B, k, from + 1)

RECURSIVE MulBytes(_, _, _, _)
\* Bytes k..8 of the product, given the carry into column k.
MulBytes(A, B, k, carry) ==
  IF k > 8 THEN <<>>
  ELSE LET t == ColSum(A, B, k, 1) + carry
       IN  <<t % 256>> \o MulBytes(A, B, k + 1, t \div 256)

\* u64::wrapping_mul: the low 64 bits of the product.
wrapping_mul(a, b) ==
  from_le_bytes(MulBytes(to_le_bytes(a), to_le_bytes(b), 1, 0))

\* a >> s (logical shift right, 0 <= s < 64).
shr(a, s) ==
  LET q == s \div 16
      r == s % 16
      lo == 2^r
      hi == 2^(16 - r)
      src(j) == IF j > 4 THEN 0 ELSE a[j]
      limb(i) == (src(i + q) \div lo) + (src(i + q + 1) % lo) * hi
  IN  <<limb(1), limb(2), limb(3), limb(4)>>

RECURSIVE XorBits(_, _)
\* Bitwise exclusive or of two naturals, bit by bit.
XorBits(x, y) ==
  IF x = 0 THEN y
  ELSE IF y = 0 THEN x
  ELSE ((x + y) % 2) + 2 * XorBits(x \div 2, y \div 2)

\* The exclusive or of two 4-bit digits, tabulated.
XorDigit == [x \in 0..15 |-> [y \in 0..15 |-> XorBits(x, y)]]

\* Bitwise exclusive or of two limbs, digit by digit.
XorLimb(x, y) ==
  XorDigit[x % 16][y % 16]
  + 16 * XorDigit[(x \div 16) % 16][(y \div 16) % 16]
  + 256 * XorDigit[(x \div 256) % 16][(y \div 256) % 16]
  + 4096 * XorDigit[x \div 4096][y \div 4096]

\* a ^ b
xor(a, b) ==
  <<XorLimb(a[1], b[1]), XorLimb(a[2], b[2]),
    XorLimb(a[3], b[3]), XorLimb(a[4], b[4])>>

\* 0x9e3779b97f4a7c15
GOLDEN == <<31765, 32586, 31161, 40503>>
\* 0xbf58476d1ce4e5b9
MIX1 == <<58809, 7396, 18285, 48984>>
\* 0x94d049bb133111eb
MIX2 == <<4587, 4913, 18875, 38096>>

\* A mistyped first round: the shifted word multiplied alone, its xor
\* with the unshifted word forgotten.
split_mix_64_noxor(state) ==
  LET z0 == wrapping_add(state, GOLDEN)
      z1 == wrapping_mul(shr(z0, 30), MIX1)
      z2 == wrapping_mul(xor(z1, shr(z1, 27)), MIX2)
  IN  xor(z2, shr(z2, 31))

\* fn split_mix_64(state: u64) -> u64
split_mix_64(state) ==
  LET z0 == wrapping_add(state, GOLDEN)
      z1 == wrapping_mul(xor(z0, shr(z0, 30)), MIX1)
      z2 == wrapping_mul(xor(z1, shr(z1, 27)), MIX2)
  IN  xor(z2, shr(z2, 31))


\* ------------------------------------------------------------ the state

VARIABLES
  hw,        \* the CPU clock / cycle counter that cpu_counter() reads
  ticks,     \* how far the CPU counter has advanced since Init
  COUNTER,   \* static COUNTER: AtomicU64 of internal_counter()
  pc,        \* per thread: "cpu" (about to read the CPU counter) or "seq"
  cpuReg,    \* per thread: the value its cpu_counter() call returned
  got,       \* per thread: the calls of get() it completed, in order
  fillPc,    \* fill(): "idle", "loop" or "done"
  buf,       \* fill(): the caller's whole buffer
  fillPos,   \* fill(): bytes already split off the front of `buf`
  fillGot,   \* fill(): the values its get() calls returned, in order
  streams,   \* the Bytes values: absent (<<>>) or [buf, pos]
  sGot,      \* per Bytes value: the values its get() calls returned
  sOut,      \* per Bytes value: the bytes it yielded, in order
  lastOp,    \* the last operation on a Bytes value
  lastRet,   \* what that operation returned: <<byte>> is Some(byte)
  mixX,      \* mixer check: first input
  mixY,      \* mixer check: second input
  mixOut,    \* mixer check: <<>> or the two outputs
  cliPc,     \* testgen: "off", "args", "loop", "ok" (exit 0) or "err"
  cliCount,  \* testgen: --count, -1 when absent
  cliTaken,  \* testgen: items the Take adapter has handed out
  cliOut,    \* testgen: the bytes written to stdout
  cliFail    \* testgen: the failed write: "none", "pipe" or "other"

getVars == <<pc, cpuReg, got>>
fillVars == <<fillPc, buf, fillPos, fillGot>>
bytesVars == <<streams, sGot, sOut, lastOp, lastRet>>
mixVars == <<mixX, mixY, mixOut>>
cliVars == <<cliPc, cliCount, cliTaken, cliOut, cliFail>>
vars == <<hw, ticks, COUNTER, getVars, fillVars, bytesVars, mixVars, cliVars>>

\* -------------------------------------------------------------- bounds

\* Threads calling get() concurrently.
NumThreads == 2
\* Calls of get() the threads make between them.
MaxCalls == 4
\* The CPU counter advances by at most MaxTicks while the model runs.
MaxTicks == 1

\* The longest buffer handed to fill().
MaxFillLen == 17
\* Bytes drawn from the Bytes values between them.
MaxNext == 9
\* The largest argument of Bytes::nth.
MaxSkip == 2
\* The CPU counter stands at 0..MaxBoot when a process that uses Bytes
\* starts.
MaxBoot == 8
\* The largest --count of testgen, and the writes modelled without one.
MaxCount == 9
\* Inputs of the mixer: each anchor word and the MixSpan words after it.
MixSpan == 3

Threads == 1..NumThreads

\* ---------------------------------------------------------------- get()

\* A load in place of the fetch_add: the atomic is left as it was.
fetch_add_load(c) == c

\* COUNTER.fetch_add(1, Ordering::SeqCst) with the atomic at c: the call
\* returns c and leaves this value in the atomic.
fetch_add(c) == wrapping_add(c, One)

\* The two counters added with saturating_add.
combine_saturating(cpu, seq) == saturating_add(cpu, seq)

\* cpu_counter().wrapping_add(internal_counter())
combine(cpu, seq) == wrapping_add(cpu, seq)

\* get() without the internal counter: the CPU counter alone is mixed.
get_value_cpu_only(cpu, seq) == split_mix_64(cpu)

\* get(), given what its two reads returned.
get_value(cpu, seq) == split_mix_64(combine(cpu, seq))

\* Calls of get() begun so far (a begun call has read the CPU counter).
Begun == Cardinality({t \in Threads : pc[t] = "seq"})
Completed == LET RECURSIVE Sum(_)
                 Sum(t) == IF t = 0 THEN 0 ELSE Len(got[t]) + Sum(t - 1)
             IN  Sum(NumThreads)

\* Thread t evaluates cpu_counter(), the receiver of wrapping_add, first.
cpu_counter(t) ==
  /\ pc[t] = "cpu"
  /\ Begun + Completed < MaxCalls
  /\ cpuReg' = [cpuReg EXCEPT ![t] = hw]
  /\ pc' = [pc EXCEPT ![t] = "seq"]
  /\ UNCHANGED <<hw, ticks, COUNTER, got, fillVars, bytesVars, mixVars,
                 cliVars>>

\* Thread t then evaluates internal_counter(), one atomic read-modify-write
\* step, adds, mixes and returns.
internal_counter(t) ==
  /\ pc[t] = "seq"
  /\ COUNTER' = fetch_add(COUNTER)
  /\ got' = [got EXCEPT ![t] =
               Append(@, [cpu |-> cpuReg[t], seq |-> COUNTER,
                          val |-> get_value(cpuReg[t], COUNTER)])]
  /\ pc' = [pc EXCEPT ![t] = "cpu"]
  /\ UNCHANGED <<hw, ticks, cpuReg, fillVars, bytesVars, mixVars, cliVars>>

\* The hardware advances the CPU counter, whatever the threads do.
tick ==
  /\ ticks < MaxTicks
  /\ hw' = wrapping_add(hw, One)
  /\ ticks' = ticks + 1
  /\ UNCHANGED <<COUNTER, getVars, fillVars, bytesVars, mixVars, cliVars>>

\* A call of get() that no other thread interleaves with: it reads the CPU
\* counter as it stands, takes the next sequence value and returns
\* get_now.
get_now == get_value(hw, COUNTER)

\* --------------------------------------------------------------- fill()

\* core::cmp::min
min(a, b) == IF a < b THEN a ELSE b

\* A chunk taken from the wrong end of the value: &ent[8 - len..].
ent_tail(ent, len) == SubSeq(ent, 8 - len + 1, 8)

\* &ent[..len]
ent_head(ent, len) == SubSeq(ent, 1, len)

\* fill(buf) is called with a buffer of L bytes, each holding b.
fill_call(L, b) ==
  /\ fillPc = "idle"
  /\ buf' = [i \in 1..L |-> b]
  /\ fillPos' = 0
  /\ fillGot' = <<>>
  /\ fillPc' = "loop"
  /\ UNCHANGED <<hw, ticks, COUNTER, getVars, bytesVars, mixVars, cliVars>>

\* One turn of `while !buf.is_empty()`: the slice still to fill is
\* buf[fillPos + 1 ..].
fill_loop ==
  /\ fillPc = "loop"
  /\ fillPos < Len(buf)
  /\ LET ent == to_le_bytes(get_now)
         len == min(Len(ent), Len(buf) - fillPos)
         dst == ent_head(ent, len)
     IN  /\ buf' = [i \in 1..Len(buf) |->
                      IF fillPos < i /\ i <= fillPos + len
                        THEN dst[i - fillPos] ELSE buf[i]]
         /\ fillPos' = fillPos + len
  /\ fillGot' = Append(fillGot, get_now)
  /\ COUNTER' = fetch_add(COUNTER)
  /\ UNCHANGED <<hw, ticks, fillPc, getVars, bytesVars, mixVars, cliVars>>

\* The loop condition fails: fill() returns.
fill_return ==
  /\ fillPc = "loop"
  /\ fillPos = Len(buf)
  /\ fillPc' = "done"
  /\ UNCHANGED <<hw, ticks, COUNTER, buf, fillPos, fillGot, getVars,
                 bytesVars, mixVars, cliVars>>

\* ---------------------------------------------------------- iter::Bytes

\* #[derive(Default)] struct Bytes { buf: [u8; 8], pos: usize }
BytesDefault == [buf |-> <<0, 0, 0, 0, 0, 0, 0, 0>>, pos |-> 0]

\* What #[derive(Clone)] would give: a copy of the fields.
Bytes_clone_derived(self) == self

\* impl Clone for Bytes
Bytes_clone(self) == BytesDefault

RECURSIVE AndBits(_, _)
\* x & y
AndBits(x, y) ==
  IF x = 0 \/ y = 0 THEN 0
  ELSE (x % 2) * (y % 2) + 2 * AndBits(x \div 2, y \div 2)

\* A mistyped mask.
next_pos_mask3(pos) == AndBits(pos + 1, 3)

\* (pos + 1) & 7
next_pos(pos) == AndBits(pos + 1, 7)

\* Bytes::next on the Bytes value in slot s.
Bytes_next(s) ==
  LET self == streams[s]
      refill == self.pos = 0
      newbuf == IF refill THEN to_le_bytes(get_now) ELSE self.buf
      item == newbuf[self.pos + 1]
  IN  /\ streams' = [streams EXCEPT
                       ![s] = [buf |-> newbuf, pos |-> next_pos(self.pos)]]
      /\ COUNTER' = IF refill THEN fetch_add(COUNTER) ELSE COUNTER
      /\ sGot' = IF refill THEN [sGot EXCEPT ![s] = Append(@, get_now)]
                 ELSE sGot
      /\ sOut' = [sOut EXCEPT ![s] = Append(@, item)]
      /\ lastRet' = <<item>>

\* poorentropy::bytes(): slot 1 receives iter::Bytes::default().
bytes ==
  /\ streams[1] = <<>>
  /\ streams' = [streams EXCEPT ![1] = BytesDefault]
  /\ lastOp' = <<"bytes", 1>>
  /\ lastRet' = <<>>
  /\ UNCHANGED <<hw, ticks, COUNTER, sGot, sOut, getVars, fillVars, mixVars,
                 cliVars>>

\* let dup = original.clone(): slot 2 receives the clone of slot 1.
clone ==
  /\ streams[1] # <<>>
  /\ streams[2] = <<>>
  /\ streams' = [streams EXCEPT ![2] = Bytes_clone(streams[1])]
  /\ lastOp' = <<"clone", 1, 2>>
  /\ lastRet' = <<>>
  /\ UNCHANGED <<hw, ticks, COUNTER, sGot, sOut, getVars, fillVars, mixVars,
                 cliVars>>

\* A caller draws the next byte of the Bytes value in slot s.
next(s) ==
  /\ streams[s] # <<>>
  /\ Len(sOut[1]) + Len(sOut[2]) < MaxNext
  /\ Bytes_next(s)
  /\ lastOp' = <<"next", s>>
  /\ UNCHANGED <<hw, ticks, getVars, fillVars, mixVars, cliVars>>

\* fn nth(&mut self, _n: usize) -> Option<u8> { self.next() }
nth(s, n) ==
  /\ streams[s] # <<>>
  /\ Len(sOut[1]) + Len(sOut[2]) < MaxNext
  /\ Bytes_next(s)
  /\ lastOp' = <<"nth", s, n>>
  /\ UNCHANGED <<hw, ticks, getVars, fillVars, mixVars, cliVars>>

\* -------------------------------------------------------------- testgen

\* The missing BrokenPipe arm: every failed write is returned.
after_write_nopipe(result) ==
  CASE result = "ok" -> "loop"
    [] result = "pipe" -> "err"
    [] result = "other" -> "err"

\* The match on out.write_all(&[byte]): Ok(()) goes on with the loop,
\* a BrokenPipe error breaks out of it to Ok(()), any other error is
\* returned.
after_write(result) ==
  CASE result = "ok" -> "loop"
    [] result = "pipe" -> "ok"
    [] result = "other" -> "err"

\* main(): the arguments are parsed (count = -1: no --count), and
\* poorentropy::bytes(), wrapped in take(count) when there is a count, is
\* handed to print_bytes.
main(count) ==
  /\ cliPc = "args"
  /\ cliCount' = count
  /\ streams' = [streams EXCEPT ![1] = BytesDefault]
  /\ lastOp' = <<"bytes", 1>>
  /\ cliPc' = "loop"
  /\ UNCHANGED <<hw, ticks, COUNTER, sGot, sOut, lastRet, cliTaken, cliOut,
                 cliFail, getVars, fillVars, mixVars>>

\* The Take adapter has handed out `count` items: the iterator ends, the
\* for loop ends, print_bytes returns Ok(()).
print_bytes_end ==
  /\ cliPc = "loop"
  /\ cliCount >= 0
  /\ cliTaken = cliCount
  /\ cliPc' = "ok"
  /\ UNCHANGED <<hw, ticks, COUNTER, bytesVars, cliCount, cliTaken, cliOut,
                 cliFail, getVars, fillVars, mixVars>>

\* One turn of `for byte in iter`: the iterator yields a byte and
\* out.write_all(&[byte]) ends with `result`.
print_bytes_write(result) ==
  /\ cliPc = "loop"
  /\ IF cliCount >= 0 THEN cliTaken < cliCount ELSE cliTaken < MaxCount
  /\ Bytes_next(1)
  /\ lastOp' = <<"next", 1>>
  /\ cliTaken' = cliTaken + 1
  /\ cliOut' = IF result = "ok" THEN Append(cliOut, lastRet'[1]) ELSE cliOut
  /\ cliFail' = IF result = "ok" THEN cliFail ELSE result
  /\ cliPc' = after_write(result)
  /\ UNCHANGED <<hw, ticks, cliCount, getVars, fillVars, mixVars>>

\* ---------------------------------------------------- the mixer applied

\* split_mix_64 is applied to the two inputs.
mix ==
  /\ mixOut = <<>>
  /\ mixOut' = <<split_mix_64(mixX), split_mix_64(mixY)>>
  /\ UNCHANGED <<hw, ticks, COUNTER, mixX, mixY, getVars, fillVars,
                 bytesVars, cliVars>>

\* ------------------------------------------------------- specifications

\* Values of the CPU counter when the process starts: just after a reset,
\* and just below the wrap of the 64-bit counter.
BootJustBelowWrap == <<Radix - 2, Radix - 1, Radix - 1, Radix - 1>>

FillIdle == /\ fillPc = "idle" /\ buf = <<>> /\ fillPos = 0 /\ fillGot = <<>>
BytesIdle == /\ streams = [s \in 1..2 |-> <<>>]
             /\ sGot = [s \in 1..2 |-> <<>>]
             /\ sOut = [s \in 1..2 |-> <<>>]
             /\ lastOp = <<"none">>
             /\ lastRet = <<>>
MixIdle == /\ mixX = Zero /\ mixY = Zero /\ mixOut = <<>>
CliIdle == /\ cliPc = "off" /\ cliCount = -1 /\ cliTaken = 0
           /\ cliOut = <<>> /\ cliFail = "none"
GetIdle == /\ pc = [t \in Threads |-> "cpu"]
           /\ cpuReg = [t \in Threads |-> Zero]
           /\ got = [t \in Threads |-> <<>>]

Init ==
  /\ hw \in {Zero, BootJustBelowWrap}
  /\ ticks = 0
  /\ COUNTER = Zero
  /\ GetIdle /\ FillIdle /\ BytesIdle /\ MixIdle /\ CliIdle

Next ==
  \/ \E t \in Threads : cpu_counter(t)
  \/ \E t \in Threads : internal_counter(t)
  \/ tick

Spec == Init /\ [][Next]_vars

\* One thread calls fill() once.
InitFill ==
  /\ hw \in {Zero, BootJustBelowWrap}
  /\ ticks = 0
  /\ COUNTER = Zero
  /\ GetIdle /\ FillIdle /\ BytesIdle /\ MixIdle /\ CliIdle

NextFill ==
  \/ \E L \in 0..MaxFillLen : \E b \in {0, 255} : fill_call(L, b)
  \/ fill_loop
  \/ fill_return
  \/ tick

SpecFill == InitFill /\ [][NextFill]_vars

\* One thread owns a Bytes value, duplicates it once and draws bytes from
\* both, while the CPU counter stands still (a counter updated at a low
\* frequency).
InitBytes ==
  /\ hw \in {FromNat(n) : n \in 0..MaxBoot}
  /\ ticks = 0
  /\ COUNTER = Zero
  /\ GetIdle /\ FillIdle /\ BytesIdle /\ MixIdle /\ CliIdle

NextBytes ==
  \/ bytes
  \/ clone
  \/ \E s \in 1..2 : next(s)
  \/ \E s \in 1..2 : \E n \in 0..MaxSkip : nth(s, n)

SpecBytes == InitBytes /\ [][NextBytes]_vars

\* testgen runs once.
InitCli ==
  /\ hw \in {Zero, BootJustBelowWrap}
  /\ ticks = 0
  /\ COUNTER = Zero
  /\ GetIdle /\ FillIdle /\ BytesIdle /\ MixIdle
  /\ cliPc = "args" /\ cliCount = -1 /\ cliTaken = 0
  /\ cliOut = <<>> /\ cliFail = "none"

NextCli ==
  \/ \E count \in -1..MaxCount : main(count)
  \/ print_bytes_end
  \/ \E result \in {"ok", "pipe", "other"} : print_bytes_write(result)
  \/ tick

SpecCli == InitCli /\ [][NextCli]_vars

\* 2^63
HighBit == <<0, 0, 0, Radix \div 2>>
\* The word that the first step of the mixer maps to 0: 2^64 - GOLDEN.
MinusGolden == <<33771, 32949, 34374, 25032>>

\* 2^30 and 2^32: the lowest bits that the shifts by 30 and by 31 or 27
\* leave in the word.
Bit30 == <<0, Radix \div 4, 0, 0>>
Bit32 == <<0, 0, 1, 0>>

\* The inputs the mixer is applied to: the words next to 0, to 2^30, to
\* 2^32, to 2^63, to the mixer's own constants, to the wrap of the first
\* addition, and to the wrap of the input itself.
MixInputs ==
  {wrapping_add(a, FromNat(d)) :
     a \in {Zero, Bit30, Bit32, HighBit, GOLDEN, MIX1, MinusGolden, U64Max},
     d \in 0..MixSpan}

InitMix ==
  /\ hw = Zero
  /\ ticks = 0
  /\ COUNTER = Zero
  /\ GetIdle /\ FillIdle /\ BytesIdle /\ CliIdle
  /\ mixX \in MixInputs
  /\ mixY \in MixInputs
  /\ mixOut = <<>>

NextMix == mix

SpecMix == InitMix /\ [][NextMix]_vars

\* ------------------------------------------- claims about get() (Spec)

\* a <= b as unsigned 64-bit integers.
Leq(a, b) ==
  \/ a[4] < b[4]
  \/ a[4] = b[4] /\ a[3] < b[3]
  \/ a[4] = b[4] /\ a[3] = b[3] /\ a[2] < b[2]
  \/ a[4] = b[4] /\ a[3] = b[3] /\ a[2] = b[2] /\ a[1] <= b[1]

\* The completed calls of get(): <<thread, index>>.
Calls == {c \in Threads \X (1..MaxCalls) : c[2] <= Len(got[c[1]])}
Call(c) == got[c[1]][c[2]]
SeqValues == {Call(c).seq : c \in Calls}

\* C1: internal_counter() hands out every value exactly once.  After k
\* completed calls, made by whatever threads in whatever interleaving, the
\* values returned are exactly 0..k-1, no two calls got the same one, and
\* the shared counter equals k.
C1_EveryValueExactlyOnce ==
  /\ COUNTER = FromNat(Completed)
  /\ SeqValues = {FromNat(n) : n \in 0..(Completed - 1)}
  /\ \A c1, c2 \in Calls : c1 # c2 => Call(c1).seq # Call(c2).seq

\* Every thread has completed a call and MaxCalls calls are complete.
C1_Witness ==
  /\ Completed = MaxCalls
  /\ \A t \in Threads : Len(got[t]) >= 1

\* C2, as stated: no two results of get() collected from the threads of one
\* process are equal, in any interleaving of their CPU counter reads and
\* sequence increments.
C2_NoTwoResultsEqual ==
  \A c1, c2 \in Calls : c1 # c2 => Call(c1).val # Call(c2).val

\* C2, amended: two calls of get() return the same value exactly when the
\* CPU counter value plus the sequence value of the one equals that of the
\* other modulo 2^64; so two calls that read the same CPU counter value
\* never return the same value.
C2_EqualOnlyWhenSumsCoincide ==
  \A c1, c2 \in Calls :
    c1 # c2 =>
      /\ (Call(c1).val = Call(c2).val) <=>
           (wrapping_add(Call(c1).cpu, Call(c1).seq)
              = wrapping_add(Call(c2).cpu, Call(c2).seq))
      /\ Call(c1).cpu = Call(c2).cpu => Call(c1).val # Call(c2).val

\* Two threads read the same CPU counter value, and a third call read
\* another.
C2_Witness ==
  \E c1, c2, c3 \in Calls :
    /\ c1[1] # c2[1]
    /\ Call(c1).cpu = Call(c2).cpu
    /\ Call(c3).cpu # Call(c1).cpu

\* The CPU counter values thread t read did not decrease from its i-th
\* call to its j-th.
NeverDecreases(t, i, j) ==
  \A k \in i..(j - 1) : Leq(got[t][k].cpu, got[t][k + 1].cpu)

\* C3: the calls of get() one thread makes return pairwise distinct
\* values, as long as the CPU counter did not decrease between its reads
\* (it may stand still), also when counter plus sequence wraps past 2^64.
C3_SingleThreadNoRepeat ==
  \A t \in Threads :
    \A i, j \in 1..Len(got[t]) :
      (i < j /\ NeverDecreases(t, i, j)) => got[t][i].val # got[t][j].val

\* A thread made two calls with the CPU counter standing still, and the
\* sum of the second one wrapped.
C3_Witness ==
  \E t \in Threads :
    /\ Len(got[t]) >= 2
    /\ got[t][1].cpu = got[t][2].cpu
    /\ ~Leq(got[t][2].cpu, wrapping_add(got[t][2].cpu, got[t][2].seq))

\* ---------------------------------------- claims about fill() (SpecFill)

\* Byte i (counted from 1) of the stream made of the little-endian bytes of
\* the values vals, eight bytes per value.
ByteOf(vals, i) == to_le_bytes(vals[((i - 1) \div 8) + 1])[((i - 1) % 8) + 1]

\* C4: when fill(buf) returns, it has called get() exactly ceil(L / 8)
\* times, one sequence value each, and byte i of buf is byte i mod 8 of the
\* little-endian bytes of the (i div 8)-th value, the last value cut short
\* when 8 does not divide L; with L = 0 it has called get() not at all.
C4_FillWritesEveryByte ==
  fillPc = "done" =>
    /\ fillPos = Len(buf)
    /\ Len(fillGot) = (Len(buf) + 7) \div 8
    /\ COUNTER = FromNat(Len(fillGot))
    /\ \A i \in 1..Len(buf) : buf[i] = ByteOf(fillGot, i)
    /\ Len(buf) = 0 => (fillGot = <<>> /\ COUNTER = Zero)

\* fill() returned from a buffer that needed more than one value and whose
\* last chunk was cut short.
C4_Witness ==
  /\ fillPc = "done"
  /\ Len(buf) > 8
  /\ Len(buf) % 8 # 0

\* --------------------------------------- claims about Bytes (SpecBytes)

\* C5: the k-th byte a Bytes value yields is Some(byte k mod 8 of the
\* little-endian bytes of the (k div 8)-th value it obtained from get());
\* it has called get() once for every eight bytes begun, that is on the
\* calls that found the position at 0; and the position stays in 0..7.
C5_StreamRegeneratesEveryEight ==
  \A s \in 1..2 :
    streams[s] # <<>> =>
      /\ streams[s].pos \in 0..7
      /\ streams[s].pos = Len(sOut[s]) % 8
      /\ Len(sGot[s]) = (Len(sOut[s]) + 7) \div 8
      /\ \A k \in 1..Len(sOut[s]) : sOut[s][k] = ByteOf(sGot[s], k)
      /\ (lastOp[1] \in {"next", "nth"} /\ lastOp[2] = s) =>
           lastRet = <<sOut[s][Len(sOut[s])]>>

\* A Bytes value has yielded more than eight bytes.
C5_Witness ==
  \E s \in 1..2 : streams[s] # <<>> /\ Len(sOut[s]) > 8

\* The step that duplicates a Bytes value leaves the duplicate as
\* Bytes::default() gives it, leaves the original as it was and calls
\* get() for nobody.
CloneStep ==
  lastOp'[1] = "clone" =>
    /\ streams'[2] = BytesDefault
    /\ streams'[1] = streams[1]
    /\ COUNTER' = COUNTER
    /\ sGot' = sGot
    /\ sOut' = sOut

\* The first byte the duplicate yields is the first byte of a value the
\* duplicate itself obtained from get(), and no value it obtains is one
\* the original obtained.
CloneDrawsItsOwn ==
  (streams[2] # <<>> /\ Len(sOut[2]) >= 1) =>
    /\ Len(sGot[2]) >= 1
    /\ sOut[2][1] = to_le_bytes(sGot[2][1])[1]
    /\ \A i \in 1..Len(sGot[1]) : \A j \in 1..Len(sGot[2]) :
         sGot[1][i] # sGot[2][j]

\* C6: duplicating a Bytes value in any state yields a value as freshly
\* constructed (position 0, zeroed buffer), so that its first next() calls
\* get() and it never replays what the original had buffered; the original
\* is left as it was and no sequence value is consumed.
C6_CloneIsFresh == [][CloneStep]_vars /\ []CloneDrawsItsOwn

\* The original was duplicated in the middle of its buffer, and the
\* duplicate has yielded a byte.
C6_Witness ==
  /\ streams[2] # <<>>
  /\ Len(sOut[2]) >= 1
  /\ streams[1] # <<>>
  /\ streams[1].pos = 3
  /\ Len(sGot[1]) = 1

\* The calls of get() that m successive calls of next() make, starting at
\* position p.
GetsDuring(p, m) == Cardinality({j \in 0..(m - 1) : (p + j) % 8 = 0})

\* C7, as stated: nth(n) leaves the Bytes value where n + 1 successive
\* calls of next() leave it (position, calls of get(), and the buffer when
\* those calls stay inside it) and returns what the last of them returns.
C7_NthAsRepeatedNext ==
  [][lastOp'[1] = "nth" =>
       LET s == lastOp'[2]
           n == lastOp'[3]
           p == streams[s].pos
       IN  /\ streams'[s].pos = (p + n + 1) % 8
           /\ Len(sGot'[s]) = Len(sGot[s]) + GetsDuring(p, n + 1)
           /\ (p # 0 /\ p + n <= 7) =>
                /\ streams'[s].buf = streams[s].buf
                /\ lastRet' = <<streams[s].buf[p + n + 1]>>]_vars

\* C10: the first two bytes that the Bytes value returned by bytes()
\* yields differ.
C10_FirstTwoBytesDiffer ==
  Len(sOut[1]) >= 2 => sOut[1][1] # sOut[1][2]

\* ---------------------------------------- claims about testgen (SpecCli)

\* C9: the write loop ends at the first failed write, nothing being
\* written after it: a broken pipe ends the run with success, any other
\* failure with that error; with a count N and no failed write exactly N
\* bytes are written before the run ends with success, and without a
\* count only a failed write ends the run.  What is written is what the
\* Bytes value yielded, in order.
C9_WriteLoop ==
  /\ cliFail = "pipe" => cliPc = "ok"
  /\ cliFail = "other" => cliPc = "err"
  /\ cliPc = "err" => cliFail = "other"
  /\ cliFail # "none" => Len(cliOut) = cliTaken - 1
  /\ cliFail = "none" => Len(cliOut) = cliTaken
  /\ (cliPc = "ok" /\ cliFail = "none") =>
       (cliCount >= 0 /\ Len(cliOut) = cliCount)
  /\ cliCount >= 0 => Len(cliOut) <= cliCount
  /\ cliOut = SubSeq(sOut[1], 1, Len(cliOut))

\* A run with a count ended on a broken pipe after some bytes were
\* written.
C9_Witness ==
  /\ cliPc = "ok"
  /\ cliFail = "pipe"
  /\ cliCount > Len(cliOut)
  /\ Len(cliOut) >= 2

\* ----------------------------------------- claims about the mixer (SpecMix)

\* The inverses modulo 2^64 of MIX1 and MIX2.
\* 0x96de1b173f119089
MIX1Inverse == <<37001, 16145, 6935, 38622>>
\* 0x319642b2d24d8ec3
MIX2Inverse == <<36547, 53837, 17074, 12694>>

\* The word z with z ^ (z >> k) = w, for k >= 22.
UnXorShift(w, k) == xor(w, xor(shr(w, k), shr(w, 2 * k)))

\* The steps of split_mix_64 undone, last step first.
unmix(out) ==
  LET z2 == UnXorShift(out, 31)
      z1 == UnXorShift(wrapping_mul(z2, MIX2Inverse), 27)
      z0 == UnXorShift(wrapping_mul(z1, MIX1Inverse), 30)
  IN  wrapping_add(z0, MinusGolden)

\* C8: split_mix_64 is a bijection on 64-bit words.  Distinct inputs give
\* distinct outputs, the input is recovered from the output, and every
\* word is the output of an input.
C8_MixerIsBijection ==
  mixOut # <<>> =>
    /\ mixX # mixY => mixOut[1] # mixOut[2]
    /\ unmix(mixOut[1]) = mixX
    /\ IsU64(mixOut[1])
    /\ split_mix_64(unmix(mixY)) = mixY

\* The mixer was applied to two distinct inputs, one of which makes its
\* first addition wrap.
C8_Witness ==
  /\ mixOut # <<>>
  /\ mixX = U64Max
  /\ mixY = MinusGolden

=============================================================================
